---- MODULE Spec2Model ----
(***************************************************************************)
(* CODCaldera: the endpoint analysis (CalderaEndpointAnalysisV2.py) and    *)
(* the breadcrumb download loop (CalderaEndpointDownloadV2.py).            *)
(*                                                                         *)
(* The analysis functions are pure; each is an operator here, and one      *)
(* action applies it to the tables held in the state.  Four specifications *)
(* share the variables:                                                    *)
(*   SpecGeo      parse_poi_polygons, classify_point                       *)
(*   SpecStats    create_landing_and_survival_stats and the two summaries  *)
(*                on a table of raw samples                                *)
(*   SpecSummary  summarize_landing_data / summarize_death_data on         *)
(*                classified events                                        *)
(*   SpecIngest   the per-player extraction and chunked write loop         *)
(* Coordinates, time steps and life values are integers.  A DataFrame is a *)
(* sequence of row records; a row's index label is its position in the     *)
(* table read from the CSV (a RangeIndex) and is kept by every filter.     *)
(***************************************************************************)
EXTENDS Integers, Sequences, FiniteSets

VARIABLES
    boundaries_df,          \* rows of the POI boundary table
    poi_polygons,           \* result of parse_poi_polygons
    point,                  \* argument of the last classify_point call
    point_poi,              \* its result
    breadcrumbs_df,         \* the sample table
    stats,                  \* result of create_landing_and_survival_stats
    landing_summary,        \* result of summarize_landing_data
    death_summary,          \* result of summarize_death_data
    player_paths,           \* len(player_paths) of the download script
    i,                      \* number of loop iterations finished
    all_player_data_chunk,  \* rows buffered in memory
    csv_file,               \* what the output CSV holds, line by line
    header_written,
    rows_appended,          \* rows appended to the buffer so far (history)
    loop_pc                 \* position of the download script

vars == <<boundaries_df, poi_polygons, point, point_poi, breadcrumbs_df, stats,
          landing_summary, death_summary, player_paths, i,
          all_player_data_chunk, csv_file, header_written, rows_appended,
          loop_pc>>

geo_vars == <<boundaries_df, poi_polygons, point, point_poi>>
table_vars == <<breadcrumbs_df, stats, landing_summary, death_summary>>
ingest_vars == <<player_paths, i, all_player_data_chunk, csv_file,
                 header_written, rows_appended, loop_pc>>

(***************************************************************************)
(* Bounds of the model.                                                    *)
(***************************************************************************)
MaxRows == 2        \* rows of the boundary table
MaxCoord == 7       \* classify_point is called on points of (0..MaxCoord)^2
MaxSamples == 2     \* rows of the sample table
MaxEvents == 3      \* rows of a table of classified events
MaxPlayers == 201   \* player paths found in the USD stage
MaxTimeSamples == 1 \* rows one player appends to the buffer

(***************************************************************************)
(* Small helpers.                                                          *)
(***************************************************************************)
Min2(a, b) == IF a <= b THEN a ELSE b
Max2(a, b) == IF a >= b THEN a ELSE b
SetMin(S) == CHOOSE m \in S : \A n \in S : m <= n
SetMax(S) == CHOOSE m \in S : \A n \in S : m >= n
Range(s) == {s[k] : k \in DOMAIN s}

RECURSIVE SeqsUpTo(_, _)
SeqsUpTo(S, n) ==
    IF n = 0 THEN {<<>>}
    ELSE LET shorter == SeqsUpTo(S, n - 1)
         IN shorter \cup {Append(q, e) : q \in {r \in shorter : Len(r) = n - 1}, e \in S}

(***************************************************************************)
(* The boundary table.  A coordinate cell is NaN (na) or a text in which   *)
(* re.findall finds the numbers `numbers'.                                 *)
(***************************************************************************)
NumCoordColumns == 9

NaN == [na |-> TRUE, numbers |-> <<>>]
Cell(x, y) == [na |-> FALSE, numbers |-> <<x, y>>]
NoNumber == [na |-> FALSE, numbers |-> <<>>]
ThreeNumbers == [na |-> FALSE, numbers |-> <<1, 2, 3>>]

BoundaryRows ==
    { [Name |-> "Alpha",   Shape |-> "A",
       cells |-> <<Cell(0, 0), Cell(4, 0), Cell(4, 4), Cell(0, 4)>>],
      [Name |-> "Bravo",   Shape |-> "B",
       cells |-> <<Cell(2, 2), NaN, Cell(6, 2), ThreeNumbers, Cell(6, 6), Cell(2, 6)>>],
      [Name |-> "Charlie", Shape |-> "C",
       cells |-> <<Cell(4, 0), Cell(7, 0), NoNumber, Cell(7, 6)>>],
      [Name |-> "Delta",   Shape |-> "D",
       cells |-> <<Cell(0, 0), Cell(6, 6)>>],
      [Name |-> "Echo",    Shape |-> "E",
       cells |-> <<NaN, Cell(3, 3), NoNumber>>],
      [Name |-> "Foxtrot", Shape |-> "F",
       cells |-> <<NaN, ThreeNumbers>>] }

\* Tables of at most MaxRows rows with unique names.
BoundaryTables ==
    {t \in SeqsUpTo(BoundaryRows, MaxRows) :
        \A a, b \in DOMAIN t : a # b => t[a].Name # t[b].Name}

\* row.get(f'Coordinate {k}'): a missing column reads as None, which is na.
RowGet(row, k) == IF k <= Len(row.cells) THEN row.cells[k] ELSE NaN

RECURSIVE CoordsFrom(_, _)
CoordsFrom(row, k) ==
    IF k > NumCoordColumns THEN <<>>
    ELSE LET coord_val == RowGet(row, k)
             rest == CoordsFrom(row, k + 1)
         IN IF ~coord_val.na /\ Len(coord_val.numbers) = 2
            THEN <<coord_val.numbers>> \o rest
            ELSE rest

parse_coords_from_row(row) == CoordsFrom(row, 1)

\* Polygon(coords) raises ValueError when the shell has fewer than three
\* coordinates (a linear ring cannot be built from them).
PolygonRaises(coords) == Len(coords) < 3

\* One pass of the loop over boundaries_df.iterrows(), from row k on.
RECURSIVE ParseFrom(_, _, _)
ParseFrom(df, k, acc) ==
    IF k > Len(df) THEN [state |-> "ok", polys |-> acc]
    ELSE LET coords == parse_coords_from_row(df[k])
         IN IF coords # <<>>
            THEN IF PolygonRaises(coords)
                 THEN [state |-> "ValueError", polys |-> <<>>]
                 ELSE ParseFrom(df, k + 1,
                                Append(acc, [name |-> df[k].Name,
                                             letter |-> df[k].Shape,
                                             polygon |-> coords]))
            ELSE ParseFrom(df, k + 1, acc)

parse_poi_polygons(df) == ParseFrom(df, 1, <<>>)

(***************************************************************************)
(* Polygon.contains(Point): the point lies in the interior of the polygon  *)
(* (a point of the boundary is not contained).  Exact integer arithmetic,  *)
(* even-odd crossing count of the ray to the right of the point.           *)
(***************************************************************************)
EdgeEnd(poly, k) == poly[(k % Len(poly)) + 1]

OnEdge(a, b, x, y) ==
    /\ (b[1] - a[1]) * (y - a[2]) = (b[2] - a[2]) * (x - a[1])
    /\ Min2(a[1], b[1]) <= x /\ x <= Max2(a[1], b[1])
    /\ Min2(a[2], b[2]) <= y /\ y <= Max2(a[2], b[2])

RayCrosses(a, b, x, y) ==
    /\ (a[2] > y) # (b[2] > y)
    /\ IF b[2] > a[2]
       THEN (x - a[1]) * (b[2] - a[2]) < (y - a[2]) * (b[1] - a[1])
       ELSE (x - a[1]) * (b[2] - a[2]) > (y - a[2]) * (b[1] - a[1])

Contains(poly, x, y) ==
    /\ \A k \in DOMAIN poly : ~OnEdge(poly[k], EdgeEnd(poly, k), x, y)
    /\ Cardinality({k \in DOMAIN poly :
                      RayCrosses(poly[k], EdgeEnd(poly, k), x, y)}) % 2 = 1

\* classify_point with the loop reversed: the last matching region wins.
RECURSIVE ClassifyLastFrom(_, _, _, _)
ClassifyLastFrom(x, y, polys, k) ==
    IF k < 1 THEN "Other"
    ELSE IF Contains(polys[k].polygon, x, y) THEN polys[k].name
         ELSE ClassifyLastFrom(x, y, polys, k - 1)

classify_point_last(x, y, polys) == ClassifyLastFrom(x, y, polys, Len(polys))

RECURSIVE ClassifyFrom(_, _, _, _)
ClassifyFrom(x, y, polys, k) ==
    IF k > Len(polys) THEN "Other"
    ELSE IF Contains(polys[k].polygon, x, y) THEN polys[k].name
         ELSE ClassifyFrom(x, y, polys, k + 1)

classify_point(x, y, polys) == ClassifyFrom(x, y, polys, 1)

(***************************************************************************)
(* create_landing_and_survival_stats.  A sample row is                     *)
(* [match_id, player_id, time_step, pos_x, pos_y, pos_z, life]; Loc adds   *)
(* the index label the row has in breadcrumbs_df.                          *)
(***************************************************************************)
LandingWindow == 45

Key(s) == <<s.match_id, s.player_id>>

KeyLess(a, b) == a[1] < b[1] \/ (a[1] = b[1] /\ a[2] < b[2])

\* groupby sorts the group keys.
RECURSIVE SortedKeys(_)
SortedKeys(S) ==
    IF S = {} THEN <<>>
    ELSE LET first == CHOOSE a \in S : \A b \in S \ {a} : KeyLess(a, b)
         IN <<first>> \o SortedKeys(S \ {first})

IsActive(s) == s.life >= 0

ActiveLabels(df) == {l \in DOMAIN df : IsActive(df[l])}

GroupLabels(df, L, key) == {l \in L : Key(df[l]) = key}

KeysOf(df, L) == {Key(df[l]) : l \in L}

\* active_df.groupby(unique_id)['time_step'].transform('min'), at row l
start_time(df, l) ==
    SetMin({df[m].time_step : m \in GroupLabels(df, ActiveLabels(df), Key(df[l]))})

\* The window taken over every active sample, whatever its time step.
LandingWindowLabelsAll(df) == ActiveLabels(df)

LandingWindowLabels(df) ==
    {l \in ActiveLabels(df) : df[l].time_step <= start_time(df, l) + LandingWindow}

\* idxmin / idxmax of column col over the rows L: the label of the first
\* occurrence of the extreme value.
idxmin(df, L, col) ==
    SetMin({l \in L : df[l][col] = SetMin({df[m][col] : m \in L})})

idxmax(df, L, col) ==
    SetMin({l \in L : df[l][col] = SetMax({df[m][col] : m \in L})})

WithLabel(df, l) ==
    [label |-> l, match_id |-> df[l].match_id, player_id |-> df[l].player_id,
     time_step |-> df[l].time_step, pos_x |-> df[l].pos_x, pos_y |-> df[l].pos_y,
     pos_z |-> df[l].pos_z, life |-> df[l].life]

\* df.loc[idx]: one row per label of idx, in the order of idx.
Loc(df, idx) == [k \in DOMAIN idx |-> WithLabel(df, idx[k])]

\* Selection by value instead of by idxmin: every row of the window whose
\* pos_z equals its group's minimum.
landing_rows_by_value(df) ==
    LET W == LandingWindowLabels(df)
        hit(l) == df[l].pos_z = SetMin({df[m].pos_z : m \in GroupLabels(df, W, Key(df[l]))})
        RECURSIVE Labels(_)
        Labels(l) == IF l > Len(df) THEN <<>>
                     ELSE (IF l \in W /\ hit(l) THEN <<l>> ELSE <<>>) \o Labels(l + 1)
    IN Loc(df, Labels(1))

landing_rows(df) ==
    LET W == LandingWindowLabels(df)
        ks == SortedKeys(KeysOf(df, W))
    IN Loc(df, [k \in DOMAIN ks |-> idxmin(df, GroupLabels(df, W, ks[k]), "pos_z")])

death_rows(df) ==
    LET ks == SortedKeys(KeysOf(df, DOMAIN df))
    IN Loc(df, [k \in DOMAIN ks |-> idxmax(df, GroupLabels(df, DOMAIN df, ks[k]), "life")])

\* Survival taken over the landing window only.
survival_time_window(df, key) ==
    SetMax({df[l].time_step : l \in GroupLabels(df, LandingWindowLabels(df), key)})

survival_time(df, key) ==
    SetMax({df[l].time_step : l \in GroupLabels(df, ActiveLabels(df), key)})

survival_df(df) ==
    LET ks == SortedKeys(KeysOf(df, ActiveLabels(df)))
    IN [k \in DOMAIN ks |->
          [match_id |-> ks[k][1], player_id |-> ks[k][2],
           survival_time |-> survival_time(df, ks[k])]]

\* pd.merge(left[unique_id + ['pos_x', 'pos_y']], right, on=unique_id):
\* an inner join, one row per pair of rows with equal keys.
RECURSIVE Merge(_, _)
Merge(left, right) ==
    IF left = <<>> THEN <<>>
    ELSE LET l == Head(left)
             matches == SelectSeq(right, LAMBDA r : Key(r) = Key(l))
         IN [k \in DOMAIN matches |->
               [match_id |-> l.match_id, player_id |-> l.player_id,
                pos_x |-> l.pos_x, pos_y |-> l.pos_y,
                survival_time |-> matches[k].survival_time]]
            \o Merge(Tail(left), right)

WithLandingPoi(r, polys) ==
    [match_id |-> r.match_id, player_id |-> r.player_id, pos_x |-> r.pos_x,
     pos_y |-> r.pos_y, survival_time |-> r.survival_time,
     landing_poi |-> classify_point(r.pos_x, r.pos_y, polys)]

WithDeathPoi(r, polys) ==
    [label |-> r.label, match_id |-> r.match_id, player_id |-> r.player_id,
     time_step |-> r.time_step, pos_x |-> r.pos_x, pos_y |-> r.pos_y,
     pos_z |-> r.pos_z, life |-> r.life,
     death_poi |-> classify_point(r.pos_x, r.pos_y, polys)]

NoStats(state) == [state |-> state, landing_df |-> <<>>, analysis_df |-> <<>>,
                   death_df |-> <<>>]

\* DataFrame.apply(..., axis=1) on a frame without rows returns a frame, not
\* a column, and assigning it to the single column 'landing_poi' raises
\* ValueError: the function returns only when analysis_df has a row.
create_landing_and_survival_stats(df, polys) ==
    LET landing == landing_rows(df)
        merged == Merge(landing, survival_df(df))
        deaths == death_rows(df)
    IN IF merged = <<>> THEN NoStats("ValueError")
       ELSE [state |-> "ok",
             landing_df |-> landing,
             analysis_df |-> [k \in DOMAIN merged |-> WithLandingPoi(merged[k], polys)],
             death_df |-> [k \in DOMAIN deaths |-> WithDeathPoi(deaths[k], polys)]]

(***************************************************************************)
(* summarize_landing_data and summarize_death_data.  A mean is kept as the *)
(* fraction num/den (sum of the group over its size) and compared by cross *)
(* multiplication.  The code computes in float64; on the event tables of   *)
(* the model (time steps 0, 2, 3, up to four players) the float64 value of *)
(* (avg - min) / (max - min) * 100 truncates to the same integer as the    *)
(* exact quotient, so the exact quotient stands for it here.  On larger    *)
(* tables the two can differ by one (0.25 * 100 is exact, 0.29 * 100 is    *)
(* 28.999999999999996).                                                    *)
(***************************************************************************)
RECURSIVE SumSurvival(_, _)
SumSurvival(df, name) ==
    IF df = <<>> THEN 0
    ELSE (IF Head(df).landing_poi = name THEN Head(df).survival_time ELSE 0)
         + SumSurvival(Tail(df), name)

GroupSize(df, col, name) == Cardinality({k \in DOMAIN df : df[k][col] = name})

\* grouped['survival_time'].mean() of one group
Mean(df, name) == [num |-> SumSurvival(df, name),
                   den |-> GroupSize(df, "landing_poi", name)]

AvgLeq(a, b) == a.num * b.den <= b.num * a.den

MinAvg(df, S) == LET A == {Mean(df, n) : n \in S}
                 IN CHOOSE a \in A : \A b \in A : AvgLeq(a, b)

MaxAvg(df, S) == LET A == {Mean(df, n) : n \in S}
                 IN CHOOSE a \in A : \A b \in A : AvgLeq(b, a)

\* (avg - mn) / (mx - mn) * 100 as the fraction NormNum / NormDen
NormNum(avg, mn, mx) == 100 * (avg.num * mn.den - mn.num * avg.den) * mx.den
NormDen(avg, mn, mx) == (mx.num * mn.den - mn.num * mx.den) * avg.den

\* Conversion to the nearest integer instead of truncation.
round_nearest(num, den) == (2 * num + den) \div (2 * den)

\* Series.astype(int) of a non-negative value: truncation.
astype_int(num, den) == num \div den

name_to_letter(polys, name) ==
    IF \E k \in DOMAIN polys : polys[k].name = name
    THEN polys[CHOOSE k \in DOMAIN polys : polys[k].name = name].letter
    ELSE "NaN"

EmptyLanding == [n \in {} |-> [player_count |-> 0, avg_survival_time |-> [num |-> 0, den |-> 1],
                               survival_score |-> 0, POI |-> "", Name |-> ""]]

\* The summary whose rows are the groups `kept' and whose min_time and
\* max_time are taken over the groups `scored'.  (max_time - min_time) > 0
\* is False both for equal means and, on an empty frame, for NaN; the
\* conditional then yields the Python int 100, which has no astype:
\* AttributeError.
LandingTable(df, polys, kept, scored) ==
    IF scored = {} \/ AvgLeq(MaxAvg(df, scored), MinAvg(df, scored))
    THEN [state |-> "AttributeError", table |-> EmptyLanding]
    ELSE LET mn == MinAvg(df, scored)
             mx == MaxAvg(df, scored)
         IN [state |-> "ok",
             table |-> [n \in kept |->
                 [player_count |-> GroupSize(df, "landing_poi", n),
                  avg_survival_time |-> Mean(df, n),
                  survival_score |-> astype_int(NormNum(Mean(df, n), mn, mx),
                                                NormDen(Mean(df, n), mn, mx)),
                  POI |-> name_to_letter(polys, n),
                  Name |-> n]]]

LandingPois(df) == {df[k].landing_poi : k \in DOMAIN df}

\* 'Other' dropped from the rows only after min_time and max_time are taken.
summarize_landing_data_other_late(df, polys) ==
    LandingTable(df, polys, LandingPois(df) \ {"Other"}, LandingPois(df))

summarize_landing_data(df, polys) ==
    LandingTable(df, polys, LandingPois(df) \ {"Other"}, LandingPois(df) \ {"Other"})

summarize_death_data(df, polys) ==
    [state |-> "ok",
     table |-> [n \in {df[k].death_poi : k \in DOMAIN df} \ {"Other"} |->
                  [death_count |-> GroupSize(df, "death_poi", n),
                   POI |-> name_to_letter(polys, n),
                   Name |-> n]]]

EmptyDeath == [n \in {} |-> [death_count |-> 0, POI |-> "", Name |-> ""]]

(***************************************************************************)
(* Actions of the analysis: each applies one function.                     *)
(***************************************************************************)
ParsePolygons ==
    /\ poi_polygons.state = "unset"
    /\ poi_polygons' = parse_poi_polygons(boundaries_df)
    /\ UNCHANGED <<boundaries_df, point, point_poi, table_vars, ingest_vars>>

ClassifyPoint ==
    /\ poi_polygons.state = "ok"
    /\ stats.state = "idle"
    /\ \E x, y \in 0..MaxCoord :
         /\ point' = <<x, y>>
         /\ point_poi' = classify_point(x, y, poi_polygons.polys)
    /\ UNCHANGED <<boundaries_df, poi_polygons, table_vars, ingest_vars>>

CreateStats ==
    /\ poi_polygons.state = "ok"
    /\ stats.state = "unset"
    /\ stats' = create_landing_and_survival_stats(breadcrumbs_df, poi_polygons.polys)
    /\ UNCHANGED <<geo_vars, breadcrumbs_df, landing_summary, death_summary, ingest_vars>>

SummarizeLanding ==
    /\ stats.state = "ok"
    /\ landing_summary.state = "unset"
    /\ landing_summary' = summarize_landing_data(stats.analysis_df, poi_polygons.polys)
    /\ UNCHANGED <<geo_vars, breadcrumbs_df, stats, death_summary, ingest_vars>>

SummarizeDeath ==
    /\ stats.state = "ok"
    /\ death_summary.state = "unset"
    /\ death_summary' = summarize_death_data(stats.death_df, poi_polygons.polys)
    /\ UNCHANGED <<geo_vars, breadcrumbs_df, stats, landing_summary, ingest_vars>>

(***************************************************************************)
(* Inputs.                                                                 *)
(***************************************************************************)
RowNamed(n) == CHOOSE r \in BoundaryRows : r.Name = n

Sample(key, t, pos, z, life) ==
    [match_id |-> key[1], player_id |-> key[2], time_step |-> t,
     pos_x |-> pos[1], pos_y |-> pos[2], pos_z |-> z, life |-> life]

\* Two players that share player_id and differ in match_id; a point inside
\* Alpha and one outside every region; time steps on both sides of the
\* landing window of a player that starts at 0 or at 1.
StatsSamples ==
    {Sample(key, t, pos, z, life) :
        key \in {<<1, 1>>, <<2, 1>>}, t \in {0, 1, 46},
        pos \in {<<1, 1>>, <<9, 9>>}, z \in {0, 1}, life \in {-1, 0}}

\* One active sample per player: player k is row k.  Points inside Alpha,
\* Bravo and Charlie, and one outside every region.
EventSamples ==
    {Sample(<<1, 0>>, t, pos, 0, 0) :
        t \in {0, 2, 3}, pos \in {<<1, 1>>, <<5, 5>>, <<6, 1>>, <<9, 9>>}}

EventTables ==
    {[k \in DOMAIN t |-> [t[k] EXCEPT !.player_id = k]] :
        t \in SeqsUpTo(EventSamples, MaxEvents)}

IdleGeo ==
    /\ boundaries_df = <<>>
    /\ poi_polygons = [state |-> "idle", polys |-> <<>>]
    /\ point = <<0, 0>>
    /\ point_poi = "unset"

IdleTables ==
    /\ breadcrumbs_df = <<>>
    /\ stats = NoStats("idle")
    /\ landing_summary = [state |-> "idle", table |-> EmptyLanding]
    /\ death_summary = [state |-> "idle", table |-> EmptyDeath]

IdleIngest ==
    /\ player_paths = 0
    /\ i = 0
    /\ all_player_data_chunk = 0
    /\ csv_file = <<>>
    /\ header_written = FALSE
    /\ rows_appended = 0
    /\ loop_pc = "idle"

InitGeo ==
    /\ boundaries_df \in BoundaryTables
    /\ poi_polygons = [state |-> "unset", polys |-> <<>>]
    /\ point = <<0, 0>>
    /\ point_poi = "unset"
    /\ IdleTables
    /\ IdleIngest

\* The tables after main() has parsed a boundary table `names'.
InitTables(names, tables) ==
    /\ boundaries_df = [k \in DOMAIN names |-> RowNamed(names[k])]
    /\ poi_polygons = parse_poi_polygons(boundaries_df)
    /\ point = <<0, 0>>
    /\ point_poi = "unset"
    /\ breadcrumbs_df \in tables
    /\ stats = NoStats("unset")
    /\ landing_summary = [state |-> "unset", table |-> EmptyLanding]
    /\ death_summary = [state |-> "unset", table |-> EmptyDeath]
    /\ IdleIngest

InitStats == InitTables(<<"Alpha", "Bravo">>, SeqsUpTo(StatsSamples, MaxSamples))

InitSummary == InitTables(<<"Alpha", "Bravo", "Charlie">>, EventTables)

NextGeo == ParsePolygons \/ ClassifyPoint
NextTables == CreateStats \/ SummarizeLanding \/ SummarizeDeath

SpecGeo == InitGeo /\ [][NextGeo]_vars
SpecStats == InitStats /\ [][NextTables]_vars
SpecSummary == InitSummary /\ [][NextTables]_vars

(***************************************************************************)
(* The download script: the loop over player_paths.  The buffer holds a    *)
(* number of rows; the CSV is the sequence of its lines.  i counts the     *)
(* iterations finished, so the running iteration has enumerate index i.    *)
(***************************************************************************)
chunk_size == 200

Lines(n, line) == [k \in 1..n |-> line]

DataRows(file) == Cardinality({k \in DOMAIN file : file[k] = "row"})

\* if (i + 1) % chunk_size == 0 or (i + 1) == len(player_paths)
ChunkDue == (i + 1) % chunk_size = 0 \/ (i + 1) = player_paths

\* `if not prim: continue' and `if not pos_attr or not life_attr: continue':
\* the iteration ends before the chunking logic.
PlayerSkipped ==
    /\ loop_pc = "loop"
    /\ i < player_paths
    /\ i' = i + 1
    /\ UNCHANGED <<geo_vars, table_vars, player_paths, all_player_data_chunk,
                   csv_file, header_written, rows_appended, loop_pc>>

\* An exception in the player's body after k rows were appended: the
\* handler prints and continues, again before the chunking logic.
PlayerFailed ==
    /\ loop_pc = "loop"
    /\ i < player_paths
    /\ \E k \in 0..MaxTimeSamples :
         /\ all_player_data_chunk' = all_player_data_chunk + k
         /\ rows_appended' = rows_appended + k
    /\ i' = i + 1
    /\ UNCHANGED <<geo_vars, table_vars, player_paths, csv_file, header_written,
                   loop_pc>>

\* The player's time samples are read, k of them with both a position and a
\* life, and the chunking logic runs.
PlayerProcessed ==
    /\ loop_pc = "loop"
    /\ i < player_paths
    /\ \E k \in 0..MaxTimeSamples :
         LET chunk == all_player_data_chunk + k
         IN /\ rows_appended' = rows_appended + k
            /\ IF ChunkDue /\ chunk > 0
               THEN /\ csv_file' = IF ~header_written
                                   THEN <<"header">> \o Lines(chunk, "row")
                                   ELSE csv_file \o Lines(chunk, "row")
                    /\ header_written' = TRUE
                    /\ all_player_data_chunk' = 0
               ELSE /\ all_player_data_chunk' = chunk
                    /\ UNCHANGED <<csv_file, header_written>>
    /\ i' = i + 1
    /\ UNCHANGED <<geo_vars, table_vars, player_paths, loop_pc>>

\* to_csv raises while a chunk is saved: the top-level handler prints the
\* error and the script ends without the success message.
ChunkWriteFails ==
    /\ loop_pc = "loop"
    /\ i < player_paths
    /\ \E k \in 0..MaxTimeSamples :
         /\ ChunkDue /\ all_player_data_chunk + k > 0
         /\ all_player_data_chunk' = all_player_data_chunk + k
         /\ rows_appended' = rows_appended + k
    /\ loop_pc' = "error"
    /\ UNCHANGED <<geo_vars, table_vars, player_paths, i, csv_file, header_written>>

\* The loop is over: print("SUCCESS! ...").
LoopEnd ==
    /\ loop_pc = "loop"
    /\ i = player_paths
    /\ loop_pc' = "done"
    /\ UNCHANGED <<geo_vars, table_vars, player_paths, i, all_player_data_chunk,
                   csv_file, header_written, rows_appended>>

InitIngest ==
    /\ IdleGeo
    /\ IdleTables
    /\ player_paths \in 1..MaxPlayers
    /\ i = 0
    /\ all_player_data_chunk = 0
    /\ csv_file = <<>>
    /\ header_written = FALSE
    /\ rows_appended = 0
    /\ loop_pc = "loop"

NextIngest ==
    PlayerSkipped \/ PlayerFailed \/ PlayerProcessed \/ ChunkWriteFails \/ LoopEnd

SpecIngest == InitIngest /\ [][NextIngest]_vars

Init == InitGeo \/ InitStats \/ InitSummary \/ InitIngest
Next == NextGeo \/ NextTables \/ NextIngest
Spec == Init /\ [][Next]_vars

(***************************************************************************)
(* Properties.                                                             *)
(***************************************************************************)
Samples == breadcrumbs_df

PlayerKeys == {Key(Samples[l]) : l \in DOMAIN Samples}

\* The labels of a player's samples with life >= 0.
ActiveOf(key) == {l \in DOMAIN Samples : Key(Samples[l]) = key /\ Samples[l].life >= 0}

RowsOf(df, key) == {k \in DOMAIN df : Key(df[k]) = key}

\* C1: a player whose samples all have life < 0 is counted in neither
\* summary: every player_count and every death_count counts only rows of
\* players that have an active sample.
C1_InactivePlayerInNoSummary ==
    /\ landing_summary.state = "ok" =>
         \A n \in DOMAIN landing_summary.table :
            landing_summary.table[n].player_count =
               Cardinality({k \in DOMAIN stats.analysis_df :
                              /\ stats.analysis_df[k].landing_poi = n
                              /\ ActiveOf(Key(stats.analysis_df[k])) # {}})
    /\ death_summary.state = "ok" =>
         \A n \in DOMAIN death_summary.table :
            death_summary.table[n].death_count =
               Cardinality({k \in DOMAIN stats.death_df :
                              /\ stats.death_df[k].death_poi = n
                              /\ ActiveOf(Key(stats.death_df[k])) # {}})

\* C2: every player with an active sample has exactly one row in analysis_df
\* and exactly one row in death_df, and the function returns for such a
\* table, whatever the ties in pos_z or life.
C2_OneRowPerActivePlayer ==
    /\ stats.state = "ValueError" => \A key \in PlayerKeys : ActiveOf(key) = {}
    /\ stats.state = "ok" =>
         \A key \in PlayerKeys :
            ActiveOf(key) # {} =>
               /\ Cardinality(RowsOf(stats.analysis_df, key)) = 1
               /\ Cardinality(RowsOf(stats.death_df, key)) = 1

\* A player with two active samples in the landing window that tie for the
\* minimum pos_z and for the maximum life.
C2_Witness ==
    /\ stats.state = "ok"
    /\ \E a, b \in DOMAIN Samples :
         /\ a < b
         /\ Key(Samples[a]) = Key(Samples[b])
         /\ Samples[a].life >= 0 /\ Samples[a].life = Samples[b].life
         /\ Samples[a].pos_z = Samples[b].pos_z
         /\ Samples[a].time_step = Samples[b].time_step

\* C3: classify_point returns the name of the first region, in the order of
\* the region list, whose polygon contains the point, and 'Other' exactly
\* when no region contains it.
C3_FirstContainingRegion ==
    point_poi # "unset" =>
       LET polys == poi_polygons.polys
           hits == {k \in DOMAIN polys : Contains(polys[k].polygon, point[1], point[2])}
       IN IF hits = {} THEN point_poi = "Other"
          ELSE point_poi = polys[SetMin(hits)].name /\ point_poi # "Other"

\* A point inside two overlapping regions, classified as the earlier one.
C3_Witness ==
    /\ point_poi # "unset"
    /\ Len(poi_polygons.polys) = 2
    /\ \A k \in 1..2 : Contains(poi_polygons.polys[k].polygon, point[1], point[2])
    /\ point_poi = poi_polygons.polys[1].name

\* The regions of the landing summary and their means, from analysis_df.
Regions == LandingPois(stats.analysis_df) \ {"Other"}

RegionMean(n) == Mean(stats.analysis_df, n)

SameMean(a, b) == a.num * b.den = b.num * a.den

\* C4: when all regions of the landing summary have the same average
\* survival time (a single region included), summarize_landing_data
\* completes and every region's survival_score is 100.
C4_EqualAveragesScore100 ==
    ( /\ landing_summary.state \notin {"idle", "unset"}
      /\ Regions # {}
      /\ \A m, n \in Regions : SameMean(RegionMean(m), RegionMean(n)) )
    => /\ landing_summary.state = "ok"
       /\ DOMAIN landing_summary.table = Regions
       /\ \A n \in Regions : landing_summary.table[n].survival_score = 100

\* The normalized value of region n, 100 * (avg - min) / (max - min), as the
\* fraction ScoreNum / ScoreDen; defined when max > min.
ScoreNum(n) == NormNum(RegionMean(n), MinAvg(stats.analysis_df, Regions),
                       MaxAvg(stats.analysis_df, Regions))
ScoreDen(n) == NormDen(RegionMean(n), MinAvg(stats.analysis_df, Regions),
                       MaxAvg(stats.analysis_df, Regions))

Spread ==
    /\ Regions # {}
    /\ ~AvgLeq(MaxAvg(stats.analysis_df, Regions), MinAvg(stats.analysis_df, Regions))

Abs(x) == IF x < 0 THEN -x ELSE x

\* C5 as stated: when max_avg > min_avg every region's score is the
\* normalized value rounded to the nearest integer, within 0..100.
C5_ScoreRoundedToNearest ==
    (landing_summary.state \notin {"idle", "unset"} /\ Spread)
    => /\ landing_summary.state = "ok"
       /\ \A n \in Regions :
            LET score == landing_summary.table[n].survival_score
            IN /\ score \in 0..100
               /\ 2 * Abs(score * ScoreDen(n) - ScoreNum(n)) <= ScoreDen(n)

\* C5 amended: when max_avg > min_avg every region's score is the
\* normalized value truncated to an integer, within 0..100.
C5_ScoreTruncated ==
    (landing_summary.state \notin {"idle", "unset"} /\ Spread)
    => /\ landing_summary.state = "ok"
       /\ DOMAIN landing_summary.table = Regions
       /\ \A n \in Regions :
            LET score == landing_summary.table[n].survival_score
            IN /\ score \in 0..100
               /\ score * ScoreDen(n) <= ScoreNum(n)
               /\ ScoreNum(n) < (score + 1) * ScoreDen(n)

\* A region whose normalized value has a fractional part of at least 1/2.
C5_Witness ==
    /\ landing_summary.state = "ok"
    /\ \E n \in Regions :
         2 * (ScoreNum(n) - landing_summary.table[n].survival_score * ScoreDen(n))
            >= ScoreDen(n)

\* The names of the boundary rows with k parsed coordinates, k in S.
RowsWithCoords(S) ==
    {k \in DOMAIN boundaries_df : Len(parse_coords_from_row(boundaries_df[k])) \in S}

RECURSIVE NamesFrom(_)
NamesFrom(k) ==
    IF k > Len(boundaries_df) THEN <<>>
    ELSE (IF k \in RowsWithCoords(3..NumCoordColumns)
          THEN <<boundaries_df[k].Name>> ELSE <<>>) \o NamesFrom(k + 1)

\* C6: a boundary row with 1 or 2 parsed coordinates is dropped without an
\* exception: parse_poi_polygons returns the remaining regions, in order,
\* and no point is classified into the dropped row.
C6_ShortRowDropped ==
    (poi_polygons.state \notin {"idle", "unset"} /\ RowsWithCoords({1, 2}) # {})
    => /\ poi_polygons.state = "ok"
       /\ [k \in DOMAIN poi_polygons.polys |-> poi_polygons.polys[k].name] = NamesFrom(1)
       /\ \A k \in RowsWithCoords({1, 2}) : point_poi # boundaries_df[k].Name

\* The landing window of a player, from the raw samples.
WindowOf(key) ==
    LET start == SetMin({Samples[l].time_step : l \in ActiveOf(key)})
    IN {l \in ActiveOf(key) : Samples[l].time_step <= start + LandingWindow}

\* C7: the landing row of a player with an active sample is one of that
\* player's active samples with time_step <= start_time + 45, its pos_z is
\* the minimum pos_z of those samples, and analysis_df carries its position.
C7_LandingIsWindowMinimum ==
    stats.state = "ok" =>
       \A key \in PlayerKeys :
          ActiveOf(key) # {} =>
             /\ RowsOf(stats.landing_df, key) # {}
             /\ \A k \in RowsOf(stats.landing_df, key) :
                  LET r == stats.landing_df[k]
                  IN /\ r.label \in WindowOf(key)
                     /\ r = WithLabel(Samples, r.label)
                     /\ r.pos_z = SetMin({Samples[l].pos_z : l \in WindowOf(key)})
                     /\ \A a \in RowsOf(stats.analysis_df, key) :
                          /\ stats.analysis_df[a].pos_x = r.pos_x
                          /\ stats.analysis_df[a].pos_y = r.pos_y

\* A player with an active sample after the window that lies lower than the
\* landing row.
C7_Witness ==
    /\ stats.state = "ok"
    /\ \E k \in DOMAIN stats.landing_df :
         \E l \in ActiveOf(Key(stats.landing_df[k])) :
            /\ l \notin WindowOf(Key(stats.landing_df[k]))
            /\ Samples[l].pos_z < stats.landing_df[k].pos_z

\* C8: the survival_time of a player's row in analysis_df is the maximum
\* time_step of that player's samples with life >= 0, inside the landing
\* window or not; samples with life < 0 do not count.
C8_SurvivalIsLastActiveStep ==
    stats.state = "ok" =>
       \A k \in DOMAIN stats.analysis_df :
          LET key == Key(stats.analysis_df[k])
          IN /\ ActiveOf(key) # {}
             /\ stats.analysis_df[k].survival_time =
                   SetMax({Samples[l].time_step : l \in ActiveOf(key)})

\* A player whose last active sample lies after the landing window.
C8_Witness ==
    /\ stats.state = "ok"
    /\ \E k \in DOMAIN stats.analysis_df :
         \E l \in ActiveOf(Key(stats.analysis_df[k])) :
            /\ l \notin WindowOf(Key(stats.analysis_df[k]))
            /\ Samples[l].time_step = stats.analysis_df[k].survival_time

NotOtherLanding(r) == r.landing_poi # "Other"
NotOtherDeath(r) == r.death_poi # "Other"

\* C9: 'Other' is a row of neither summary, and the landing summary is the
\* one computed from the landing events without their 'Other' rows: the
\* unclassified landings change no min, max or score.
C9_OtherNeverCounts ==
    /\ landing_summary.state \notin {"idle", "unset"} =>
         /\ "Other" \notin DOMAIN landing_summary.table
         /\ landing_summary =
               summarize_landing_data(SelectSeq(stats.analysis_df, NotOtherLanding),
                                      poi_polygons.polys)
    /\ death_summary.state \notin {"idle", "unset"} =>
         /\ "Other" \notin DOMAIN death_summary.table
         /\ death_summary =
               summarize_death_data(SelectSeq(stats.death_df, NotOtherDeath),
                                    poi_polygons.polys)

\* Both summaries computed from events with an unclassified landing whose
\* survival time lies below every region's mean, and an unclassified death.
C9_Witness ==
    /\ landing_summary.state = "ok"
    /\ death_summary.state = "ok"
    /\ \E k \in DOMAIN stats.analysis_df :
         /\ stats.analysis_df[k].landing_poi = "Other"
         /\ \A n \in Regions :
              stats.analysis_df[k].survival_time * RegionMean(n).den < RegionMean(n).num
    /\ \E k \in DOMAIN stats.death_df : stats.death_df[k].death_poi = "Other"

\* C10: when the loop has ended and the success message is printed, the
\* buffer is empty, every row appended to it is in the CSV exactly once, and
\* the header is the first line and the only header.
C10_AllRowsWrittenAtSuccess ==
    loop_pc = "done" =>
       /\ all_player_data_chunk = 0
       /\ DataRows(csv_file) = rows_appended
       /\ \A k \in DOMAIN csv_file : (csv_file[k] = "header") <=> (k = 1)

====
